---- MODULE Spec2Model ----
(***************************************************************************)
(* Model of the voice-chat turn pipeline of src/main.py: the in-memory     *)
(* session store chat_sessions, the handler chat_with_history with its     *)
(* three capability adapters, and the session endpoints get_chat_history,  *)
(* clear_chat_history and list_sessions.                                   *)
(*                                                                         *)
(* Scheduling.  Every handler is an "async def" run by one asyncio event   *)
(* loop.  The only suspension point of chat_with_history is                *)
(* "await audio_file.read()" (line 822); the adapters are synchronous      *)
(* calls that block the loop.  A turn therefore runs from the resumption   *)
(* after line 822 to its return without any other handler running; the     *)
(* variable loop holds the call that currently occupies the event loop.    *)
(* A call's locals and its response exist until the call returns: Return   *)
(* frees the frame and the event loop.  observed is the response of the    *)
(* session endpoint that ran in the last step.                             *)
(*                                                                         *)
(* Text is a string, read as the sequence of its characters.  An optional  *)
(* value is a sequence of length 0 (Python None) or 1 (the value).         *)
(***************************************************************************)
EXTENDS Integers, Sequences, FiniteSets, TLC

\* ------------------------------------------------------------------ bounds
MaxTurns == 2        \* turns started in one behaviour
MaxConcurrent == 2   \* calls of chat_with_history in flight at once

\* ------------------------------------------------------- program constants
MAX_HISTORY_MESSAGES == 20
MAX_MURF_CHARS == 3000

None == <<>>
Some(x) == <<x>>
IsNone(o) == o = <<>>
Val(o) == o[1]

FALLBACK_MESSAGES ==
  [stt_error |->
       "I'm having trouble hearing you right now. Please check your microphone and try again.",
   llm_error |->
       "I'm having trouble thinking right now. My AI brain needs a moment to reconnect.",
   tts_error |->
       "I'm having trouble speaking right now, but I can still understand you.",
   connection_error |->
       "I'm having trouble connecting to my services right now. Please try again in a moment.",
   general_error |->
       "Something went wrong on my end. Let me try to help you differently."]

ERROR_TYPES == {"stt_error", "llm_error", "tts_error", "connection_error", "general_error"}

\* ---------------------------------------------------------- Python helpers
\* s[i - 1]: the i-th character of a string
Char(s, i) == SubSeq(s, i, i)

Max2(a, b) == IF a >= b THEN a ELSE b
Min2(a, b) == IF a <= b THEN a ELSE b
Max3(a, b, c) == Max2(a, Max2(b, c))

\* s[:n] for n >= 0
PyPrefix(s, n) == SubSeq(s, 1, Min2(n, Len(s)))

\* s[-n:] for n > 0
PyLastN(s, n) == SubSeq(s, Max2(1, Len(s) - n + 1), Len(s))

\* str.rfind(c) for a one-character c: 0-based index of the last occurrence, -1 if none
PyRfind(s, c) ==
  IF \E i \in 1..Len(s) : Char(s, i) = c
    THEN (CHOOSE i \in 1..Len(s) :
            Char(s, i) = c /\ \A j \in (i + 1)..Len(s) : Char(s, j) # c) - 1
    ELSE -1

\* str.strip(): drops leading and trailing blanks
PyStrip(s) ==
  IF \A i \in 1..Len(s) : Char(s, i) = " " THEN ""
  ELSE SubSeq(s,
         CHOOSE i \in 1..Len(s) :
           Char(s, i) # " " /\ \A j \in 1..(i - 1) : Char(s, j) = " ",
         CHOOSE i \in 1..Len(s) :
           Char(s, i) # " " /\ \A j \in (i + 1)..Len(s) : Char(s, j) = " ")

\* str.lower() on ASCII text
LowerChar(c) ==
  CASE c = "A" -> "a" [] c = "B" -> "b" [] c = "C" -> "c" [] c = "D" -> "d" [] c = "E" -> "e"
    [] c = "F" -> "f" [] c = "G" -> "g" [] c = "H" -> "h" [] c = "I" -> "i" [] c = "J" -> "j"
    [] c = "K" -> "k" [] c = "L" -> "l" [] c = "M" -> "m" [] c = "N" -> "n" [] c = "O" -> "o"
    [] c = "P" -> "p" [] c = "Q" -> "q" [] c = "R" -> "r" [] c = "S" -> "s" [] c = "T" -> "t"
    [] c = "U" -> "u" [] c = "V" -> "v" [] c = "W" -> "w" [] c = "X" -> "x" [] c = "Y" -> "y"
    [] c = "Z" -> "z"
    [] OTHER -> c

RECURSIVE PyLower(_)
PyLower(s) == IF s = "" THEN "" ELSE LowerChar(Head(s)) \o PyLower(Tail(s))

\* "w in s" for strings
PyContains(s, w) ==
  \E i \in 1..(Len(s) - Len(w) + 1) : SubSeq(s, i, i + Len(w) - 1) = w

Ellipsis == "..."

\* ------------------------------------------------------ error classification
\* lines 45-58; error_str is the lower-cased text, computed once
get_error_type(exception) ==
  CHOOSE class \in
    { IF \/ PyContains(error_str, "assemblyai")
         \/ PyContains(error_str, "transcription")
         \/ PyContains(error_str, "speech")
        THEN "stt_error"
      ELSE IF \/ PyContains(error_str, "gemini")
              \/ PyContains(error_str, "llm")
              \/ PyContains(error_str, "generate_content")
        THEN "llm_error"
      ELSE IF \/ PyContains(error_str, "murf")
              \/ PyContains(error_str, "tts")
              \/ PyContains(error_str, "text_to_speech")
        THEN "tts_error"
      ELSE IF \/ PyContains(error_str, "connection")
              \/ PyContains(error_str, "network")
              \/ PyContains(error_str, "timeout")
        THEN "connection_error"
      ELSE "general_error" : error_str \in {PyLower(exception)} } : TRUE

\* ------------------------------------------------- truncation before synthesis
\* TruncateForTts that already truncates a text of exactly max_chars characters
TruncateForTts_AtLimit(text, max_chars) ==
  IF Len(text) >= max_chars
    THEN LET truncated == PyPrefix(text, max_chars)
             last_sentence == Max3(PyRfind(truncated, "."),
                                   PyRfind(truncated, "!"),
                                   PyRfind(truncated, "?"))
         IN  IF 10 * last_sentence > 8 * max_chars
               THEN PyPrefix(truncated, last_sentence + 1)
               ELSE LET last_space == PyRfind(truncated, " ")
                    IN  (IF last_space > 0 THEN PyPrefix(truncated, last_space)
                                           ELSE truncated) \o Ellipsis
    ELSE text

\* TruncateForTts that appends the ellipsis only after a cut at a space
TruncateForTts_EllipsisAtSpaceOnly(text, max_chars) ==
  IF Len(text) > max_chars
    THEN LET truncated == PyPrefix(text, max_chars)
             last_sentence == Max3(PyRfind(truncated, "."),
                                   PyRfind(truncated, "!"),
                                   PyRfind(truncated, "?"))
         IN  IF 10 * last_sentence > 8 * max_chars
               THEN PyPrefix(truncated, last_sentence + 1)
               ELSE LET last_space == PyRfind(truncated, " ")
                    IN  IF last_space > 0 THEN PyPrefix(truncated, last_space) \o Ellipsis
                                          ELSE truncated
    ELSE text

\* query_llm, lines 702-722, with the budget as a parameter
TruncateForLlmAudio(llm_text, max_chars) ==
  IF Len(llm_text) > max_chars
    THEN LET truncated_text == PyPrefix(llm_text, max_chars)
             last_period == PyRfind(truncated_text, ".")
             last_exclamation == PyRfind(truncated_text, "!")
             last_question == PyRfind(truncated_text, "?")
             last_sentence_end == Max3(last_period, last_exclamation, last_question)
         IN  IF 10 * last_sentence_end > 8 * max_chars
               THEN PyPrefix(truncated_text, last_sentence_end + 1)
               ELSE LET last_space == PyRfind(truncated_text, " ")
                    IN  IF 10 * last_space > 9 * max_chars
                          THEN PyPrefix(truncated_text, last_space) \o Ellipsis
                          ELSE truncated_text \o Ellipsis
    ELSE llm_text

\* chat_with_history, lines 899-916, with the budget as a parameter
TruncateForTts(text, max_chars) ==
  IF Len(text) > max_chars
    THEN CHOOSE tts_text \in
           { LET last_sentence == Max3(PyRfind(truncated, "."),
                                       PyRfind(truncated, "!"),
                                       PyRfind(truncated, "?"))
             IN  IF 10 * last_sentence > 8 * max_chars
                   THEN PyPrefix(truncated, last_sentence + 1)
                   ELSE LET last_space == PyRfind(truncated, " ")
                        IN  (IF last_space > 0 THEN PyPrefix(truncated, last_space)
                                               ELSE truncated) \o Ellipsis
             : truncated \in {PyPrefix(text, max_chars)} } : TRUE
    ELSE text

\* ------------------------------------------------------------------ inputs
Sessions == {"s1", "s2"}
Turns == 1..MaxConcurrent
NoTurn == 0

\* str.startswith
PyStartsWith(s, w) == Len(s) >= Len(w) /\ SubSeq(s, 1, Len(w)) = w

AUDIO_PREFIX == "audio/"

\* audio_file.content_type of an upload: absent, empty, an audio type, another type
ContentTypes ==
  { None,
    Some(""),
    Some("audio/wav"),
    Some("text/csv") }

TEXT_HELLO == "Hello"
TEXT_OK == "Ok"
TEXT_HI_THERE == "Hi there!"

\* n copies of s
RECURSIVE Repeat(_, _)
Repeat(s, n) ==
  IF n = 0 THEN ""
  ELSE LET half == Repeat(s, n \div 2)
       IN  half \o half \o (IF n % 2 = 1 THEN s ELSE "")

\* a reply longer than the synthesis budget whose last sentence ends inside the window
LONG_REPLY ==
  Repeat("word ", (MAX_MURF_CHARS - 100) \div 5 - 1) \o "word. " \o Repeat("more ", 30)

\* what the AssemblyAI transcriber does with the audio: raises, reports an error
\* status, or completes with a text (None, empty, blank or padded)
TranscriberOutcomes ==
  { [kind |-> "raise", text |-> None, ref |-> ""],
    [kind |-> "status_error", text |-> None, ref |-> ""] }
  \cup { [kind |-> "completed", text |-> x, ref |-> ""] :
           x \in { None, Some(""), Some(" "),
                   Some(" " \o TEXT_HELLO \o " ") } }

\* what Gemini does with the prompt: raises, or returns a response whose text is
\* None, empty, blank, padded, or longer than the synthesis budget
ResponderOutcomes ==
  { [kind |-> "raise", text |-> None, ref |-> ""] }
  \cup { [kind |-> "response", text |-> x, ref |-> ""] :
           x \in { None, Some(""), Some(" "),
                   Some(" " \o TEXT_HI_THERE \o " "), Some(LONG_REPLY) } }

\* what Murf does with the text: raises, or returns a response object that has
\* an audio_url attribute, only an audio_file attribute, or neither
SynthesizerOutcomes ==
  { [kind |-> "raise", text |-> None, ref |-> ""],
    [kind |-> "audio_url", text |-> None, ref |-> "a1"],
    [kind |-> "audio_file", text |-> None, ref |-> "f1"],
    [kind |-> "opaque", text |-> None, ref |-> "repr(response)"] }

\* texts of the exceptions that reading the upload can raise
ReadErrors ==
  { "closed file",
    "Read Timeout" }

\* ------------------------------------------------------------------- state
VARIABLES
  chat_sessions,     \* session_id -> list of messages; DOMAIN = the keys present
  murf_client,       \* TRUE iff the Murf client was created at start-up
  aai_transcriber,   \* TRUE iff the AssemblyAI transcriber was created
  gemini_client,     \* TRUE iff the Gemini client was created
  clock,             \* the value the next datetime.now() returns
  loop,              \* the turn running on the event loop, NoTurn if it is free
  frame,             \* per call slot: the locals of its chat_with_history call
  started,           \* number of calls of chat_with_history started so far
  observed           \* the response of the session endpoint that just ran

vars == <<chat_sessions, murf_client, aai_transcriber, gemini_client, clock, loop,
          frame, started, observed>>

config == <<murf_client, aai_transcriber, gemini_client>>

NoObservation == [endpoint |-> "none"]

\* chat_sessions[session_id] on a defaultdict(list): a missing key is created
Touch(sessions, session_id) ==
  IF session_id \in DOMAIN sessions THEN sessions
  ELSE sessions @@ (session_id :> <<>>)

\* AppendMessage that inserts the message at the front of the list
AppendMessage_Prepend(sessions, session_id, message) ==
  LET touched == Touch(sessions, session_id)
  IN  [touched EXCEPT ![session_id] = <<message>> \o @]

\* chat_sessions[session_id].append(message)
AppendMessage(sessions, session_id, message) ==
  LET touched == Touch(sessions, session_id)
  IN  [touched EXCEPT ![session_id] = Append(@, message)]

Message(role, content, timestamp) ==
  [role |-> role, content |-> content, timestamp |-> timestamp]

\* the locals of a call that has not started
InitialFrame ==
  [pc |-> "idle", session_id |-> "", content_type |-> None,
   transcript_error |-> None, llm_error |-> None, tts_error |-> None,
   fallback_used |-> FALSE, error_type |-> None,
   user_message |-> None, assistant_message |-> None, audio_url |-> None,
   conversation_prompt |-> <<>>, tts_text |-> "", voice |-> "", style |-> "",
   exception |-> None, result |-> None,
   \* history variables: the calls made so far, the session's history when the
   \* transcriber was called, and what each external service did
   calls |-> <<>>, history_before |-> <<>>,
   transcriber_outcome |-> None, responder_outcome |-> None,
   synthesizer_outcome |-> None]

\* a history that k earlier successful turns of this process leave behind
PriorHistory(k) ==
  [i \in 1..(2 * k) |->
     IF i % 2 = 1
       THEN Message("user", IF i % 4 = 1 THEN TEXT_HELLO ELSE TEXT_OK, i)
       ELSE Message("assistant",
                    IF gemini_client THEN TEXT_HI_THERE ELSE FALLBACK_MESSAGES.llm_error,
                    i)]

PriorTurnCounts == {MAX_HISTORY_MESSAGES - 1, MAX_HISTORY_MESSAGES}

Init ==
  /\ murf_client \in BOOLEAN
  /\ aai_transcriber \in BOOLEAN
  /\ gemini_client \in BOOLEAN
  /\ \/ chat_sessions = <<>>
     \/ /\ aai_transcriber
        /\ \E k \in PriorTurnCounts : chat_sessions = ("s1" :> PriorHistory(k))
  /\ clock = 2 * MAX_HISTORY_MESSAGES + 1
  /\ loop = NoTurn
  /\ frame = [t \in Turns |-> InitialFrame]
  /\ started = 0
  /\ observed = NoObservation

\* ---------------------------------------------------------------- adapters
\* recorded for a service that is not configured and therefore not called
NotCalled == [kind |-> "not_called", text |-> None, ref |-> ""]

\* Python truth value of an Optional[str] error message
Truthy(o) == ~IsNone(o) /\ Val(o) # ""

Call(op) == [op |-> op, text |-> "", voice |-> "", style |-> ""]
MurfCall(text, voice, style) ==
  [op |-> "murf.generate", text |-> text, voice |-> voice, style |-> style]

\* ExtractAudioUrl that knows the audio_url attribute only
ExtractAudioUrl_UrlOnly(outcome) ==
  IF outcome.kind = "audio_url" THEN Some(outcome.ref) ELSE None

\* the audio reference that both TTS adapters extract from a Murf response
ExtractAudioUrl(outcome) ==
  CASE outcome.kind = "audio_url" -> Some(outcome.ref)
    [] outcome.kind = "audio_file" -> Some(outcome.ref)
    [] OTHER -> Some(outcome.ref)

\* generate_fallback_tts without the handler of lines 78-80
generate_fallback_tts_IgnoresFailure(message, outcome) ==
  IF ~murf_client THEN None
  ELSE ExtractAudioUrl(outcome)

\* returns the fallback audio reference, or None
generate_fallback_tts(message, outcome) ==
  IF ~murf_client THEN None
  ELSE IF outcome.kind = "raise" THEN None
  ELSE ExtractAudioUrl(outcome)

\* the calls that generate_fallback_tts makes
FallbackTtsCalls(message) ==
  <<Call("generate_fallback_tts")>>
    \o (IF murf_client THEN <<MurfCall(message, "en-US-ken", "Neutral")>> ELSE <<>>)

\* safe_transcribe_audio without the check for blank text
safe_transcribe_audio_NoBlankCheck(outcome) ==
  IF ~aai_transcriber
    THEN <<None, Some("Speech-to-text service is not available")>>
  ELSE IF outcome.kind = "raise"
    THEN <<None, Some("Transcription error: <exception>")>>
  ELSE IF outcome.kind = "status_error"
    THEN <<None, Some("Transcription failed: <transcript.error>")>>
  ELSE IF IsNone(outcome.text) \/ Len(Val(outcome.text)) = 0
    THEN <<None, Some("No speech detected in the audio")>>
  ELSE <<Some(PyStrip(Val(outcome.text))), None>>

\* returns <<transcript, error_message>>
safe_transcribe_audio(outcome) ==
  IF ~aai_transcriber
    THEN <<None, Some("Speech-to-text service is not available")>>
  ELSE IF outcome.kind = "raise"
    THEN <<None, Some("Transcription error: <exception>")>>
  ELSE IF outcome.kind = "status_error"
    THEN <<None, Some("Transcription failed: <transcript.error>")>>
  ELSE IF IsNone(outcome.text) \/ Len(Val(outcome.text)) = 0
          \/ Len(PyStrip(Val(outcome.text))) = 0
    THEN <<None, Some("No speech detected in the audio")>>
  ELSE <<Some(PyStrip(Val(outcome.text))), None>>

TranscribeCalls ==
  <<Call("safe_transcribe_audio")>>
    \o (IF aai_transcriber THEN <<Call("aai.transcribe")>> ELSE <<>>)

\* safe_generate_llm_response that accepts an empty text as a reply
safe_generate_llm_response_EmptyOk(outcome) ==
  IF ~gemini_client
    THEN <<None, Some("AI language model is not available")>>
  ELSE IF outcome.kind = "raise"
    THEN <<None, Some("AI response error: <exception>")>>
  ELSE IF IsNone(outcome.text)
    THEN <<None, Some("AI did not generate a response")>>
  ELSE <<Some(PyStrip(Val(outcome.text))), None>>

\* returns <<response, error_message>>
safe_generate_llm_response(outcome) ==
  IF ~gemini_client
    THEN <<None, Some("AI language model is not available")>>
  ELSE IF outcome.kind = "raise"
    THEN <<None, Some("AI response error: <exception>")>>
  ELSE IF IsNone(outcome.text) \/ Len(Val(outcome.text)) = 0
    THEN <<None, Some("AI did not generate a response")>>
  ELSE <<Some(PyStrip(Val(outcome.text))), None>>

GenerateCalls ==
  <<Call("safe_generate_llm_response")>>
    \o (IF gemini_client THEN <<Call("gemini.generate_content")>> ELSE <<>>)

\* safe_generate_tts without the check of lines 122-123 for a missing client
safe_generate_tts_NoConfigCheck(outcome) ==
  IF outcome.kind = "raise"
    THEN <<None, Some("Text-to-speech error: <exception>")>>
  ELSE <<ExtractAudioUrl(outcome), None>>

\* returns <<audio_url, error_message>>
safe_generate_tts(outcome) ==
  IF ~murf_client
    THEN <<None, Some("Text-to-speech service is not available")>>
  ELSE IF outcome.kind = "raise"
    THEN <<None, Some("Text-to-speech error: <exception>")>>
  ELSE <<ExtractAudioUrl(outcome), None>>

TtsCalls(text, voice, style) ==
  <<Call("safe_generate_tts")>>
    \o (IF murf_client THEN <<MurfCall(text, voice, style)>> ELSE <<>>)

\* ------------------------------------------------------------ the response
ChatResponse(success, message, audio_url, transcript, llm_response, session_id, message_count, error_type, fallback_used) ==
  [success |-> success, message |-> message, audio_url |-> audio_url,
   transcript |-> transcript, llm_response |-> llm_response,
   session_id |-> session_id, message_count |-> message_count,
   error_type |-> error_type, fallback_used |-> fallback_used]

\* ------------------------------------------------------- chat_with_history
\* lines 797-822: the locals are initialised, the session is looked up for the
\* log line (which creates its key), and the content type is validated; an
\* invalid type raises HTTPException, which lines 990-993 re-raise; a valid
\* one lets the call suspend at "await audio_file.read()"
Start(t, s, ct) ==
  /\ loop = NoTurn
  /\ started < MaxTurns
  /\ frame[t].pc = "idle"
  /\ \A u \in Turns : u < t => frame[u].pc # "idle"
  /\ started' = started + 1
  /\ chat_sessions' = Touch(chat_sessions, s)
  /\ LET invalid == IsNone(ct) \/ Len(Val(ct)) = 0
                      \/ ~PyStartsWith(Val(ct), AUDIO_PREFIX)
     IN  /\ frame' = [frame EXCEPT ![t] =
              [@ EXCEPT !.session_id = s, !.content_type = ct,
                        !.pc = IF invalid THEN "rejected" ELSE "await_read"]]
         /\ loop' = IF invalid THEN t ELSE NoTurn
  /\ observed' = NoObservation
  /\ UNCHANGED <<config, clock>>

\* line 822: the call resumes after "await audio_file.read()" and occupies the
\* event loop until it returns; the read either yields the bytes or raises
ReadAudio(t) ==
  /\ loop = NoTurn
  /\ frame[t].pc = "await_read"
  /\ loop' = t
  /\ \/ frame' = [frame EXCEPT ![t].pc = "transcribe"]
     \/ \E e \in ReadErrors :
          frame' = [frame EXCEPT ![t] = [@ EXCEPT !.pc = "except", !.exception = Some(e)]]
  /\ observed' = NoObservation
  /\ UNCHANGED <<chat_sessions, config, clock, started>>

\* AfterTranscribe that goes on to the next stages after a failure
AfterTranscribe_FallThrough(transcript_error) ==
  IF Truthy(transcript_error) THEN "build_context" ELSE "store_user"

\* line 827: where the call continues after the transcription
AfterTranscribe(transcript_error) ==
  IF Truthy(transcript_error) THEN "stt_fallback" ELSE "store_user"

\* lines 825-830
Transcribe(t) ==
  /\ loop = t
  /\ frame[t].pc = "transcribe"
  /\ \E outcome \in TranscriberOutcomes :
       LET r == safe_transcribe_audio(outcome)
           s == frame[t].session_id
       IN  frame' = [frame EXCEPT ![t] =
             [@ EXCEPT !.user_message = r[1], !.transcript_error = r[2],
                       !.calls = @ \o TranscribeCalls,
                       !.transcriber_outcome =
                          Some(IF aai_transcriber THEN outcome ELSE NotCalled),
                       !.history_before =
                          IF s \in DOMAIN chat_sessions THEN chat_sessions[s] ELSE <<>>,
                       !.error_type = IF Truthy(r[2]) THEN Some("stt_error") ELSE @,
                       !.pc = AfterTranscribe(r[2])]]
  /\ observed' = NoObservation
  /\ UNCHANGED <<chat_sessions, config, clock, loop, started>>

\* lines 830-845: the fallback audio is attempted and the failed result returned
SttFallback(t) ==
  /\ loop = t
  /\ frame[t].pc = "stt_fallback"
  /\ \E outcome \in SynthesizerOutcomes :
       LET f == frame[t]
           fallback_message == FALLBACK_MESSAGES[Val(f.error_type)]
           fallback_audio == generate_fallback_tts(fallback_message, outcome)
           touched == Touch(chat_sessions, f.session_id)
       IN  /\ chat_sessions' = touched
           /\ frame' = [frame EXCEPT ![t] =
                [@ EXCEPT !.calls = @ \o FallbackTtsCalls(fallback_message),
                          !.synthesizer_outcome =
                             Some(IF murf_client THEN outcome ELSE NotCalled),
                          !.result = Some(ChatResponse(
                               FALSE, [kind |-> "fallback", text |-> fallback_message],
                               fallback_audio, None, Some(fallback_message),
                               f.session_id, Len(touched[f.session_id]),
                               f.error_type, TRUE)),
                          !.pc = "done"]]
  /\ observed' = NoObservation
  /\ UNCHANGED <<config, clock, loop, started>>

\* StoreUser that goes on to the prompt without storing the user message
StoreUser_Skipped(t) ==
  /\ loop = t
  /\ frame[t].pc = "store_user"
  /\ chat_sessions' = Touch(chat_sessions, frame[t].session_id)
  /\ clock' = clock + 1
  /\ frame' = [frame EXCEPT ![t] =
        [@ EXCEPT !.calls = Append(@, Call("append_user")), !.pc = "build_context"]]
  /\ observed' = NoObservation
  /\ UNCHANGED <<config, loop, started>>

\* lines 849-854
StoreUser(t) ==
  /\ loop = t
  /\ frame[t].pc = "store_user"
  /\ chat_sessions' = AppendMessage(chat_sessions, frame[t].session_id,
                                    Message("user", Val(frame[t].user_message), clock))
  /\ clock' = clock + 1
  /\ frame' = [frame EXCEPT ![t] =
        [@ EXCEPT !.calls = Append(@, Call("append_user")), !.pc = "build_context"]]
  /\ observed' = NoObservation
  /\ UNCHANGED <<config, loop, started>>

\* lines 863-871: the prompt, as the sequence of the pieces concatenated
Segment(kind, label, content) == [kind |-> kind, label |-> label, content |-> content]

RoleLabel(role) == IF role = "user" THEN "User" ELSE "Assistant"

BuildPrompt(recent_messages) ==
  <<Segment("system", "", "")>>
    \o [i \in 1..Len(recent_messages) |->
          Segment("message", RoleLabel(recent_messages[i].role), recent_messages[i].content)]
    \o (IF Len(recent_messages) > 1 THEN <<Segment("continue", "", "")>> ELSE <<>>)

\* RecentMessages that takes the whole history
RecentMessages_All(history) == history

\* line 860
RecentMessages(history) == PyLastN(history, MAX_HISTORY_MESSAGES)

\* lines 859-874
BuildContext(t) ==
  /\ loop = t
  /\ frame[t].pc = "build_context"
  /\ LET touched == Touch(chat_sessions, frame[t].session_id)
         recent_messages == RecentMessages(touched[frame[t].session_id])
     IN  /\ chat_sessions' = touched
         /\ frame' = [frame EXCEPT ![t] =
              [@ EXCEPT !.conversation_prompt = BuildPrompt(recent_messages),
                        !.pc = "generate"]]
  /\ observed' = NoObservation
  /\ UNCHANGED <<config, clock, loop, started>>

\* lines 879-888
Generate(t) ==
  /\ loop = t
  /\ frame[t].pc = "generate"
  /\ \E outcome \in ResponderOutcomes :
       LET r == safe_generate_llm_response(outcome)
       IN  frame' = [frame EXCEPT ![t] =
             [@ EXCEPT !.llm_error = r[2],
                       !.calls = @ \o GenerateCalls,
                       !.responder_outcome =
                          Some(IF gemini_client THEN outcome ELSE NotCalled),
                       !.error_type = IF Truthy(r[2]) THEN Some("llm_error") ELSE @,
                       !.assistant_message =
                          IF Truthy(r[2]) THEN Some(FALLBACK_MESSAGES.llm_error) ELSE r[1],
                       !.fallback_used = IF Truthy(r[2]) THEN TRUE ELSE @,
                       !.pc = "store_assistant"]]
  /\ observed' = NoObservation
  /\ UNCHANGED <<chat_sessions, config, clock, loop, started>>

\* StoreAssistant that writes back the history it read before the turn's appends
StoreAssistant_StaleSnapshot(t) ==
  /\ loop = t
  /\ frame[t].pc = "store_assistant"
  /\ chat_sessions' =
       [Touch(chat_sessions, frame[t].session_id) EXCEPT ![frame[t].session_id] =
          Append(frame[t].history_before,
                 Message("assistant", Val(frame[t].assistant_message), clock))]
  /\ clock' = clock + 1
  /\ frame' = [frame EXCEPT ![t] =
        [@ EXCEPT !.calls = Append(@, Call("append_assistant")), !.pc = "truncate"]]
  /\ observed' = NoObservation
  /\ UNCHANGED <<config, loop, started>>

\* StoreAssistant that stores the reply as it is cut for Murf
StoreAssistant_Truncated(t) ==
  /\ loop = t
  /\ frame[t].pc = "store_assistant"
  /\ chat_sessions' = AppendMessage(chat_sessions, frame[t].session_id,
                         Message("assistant",
                                 TruncateForTts(Val(frame[t].assistant_message),
                                                MAX_MURF_CHARS),
                                 clock))
  /\ clock' = clock + 1
  /\ frame' = [frame EXCEPT ![t] =
        [@ EXCEPT !.calls = Append(@, Call("append_assistant")), !.pc = "truncate"]]
  /\ observed' = NoObservation
  /\ UNCHANGED <<config, loop, started>>

\* lines 890-895
StoreAssistant(t) ==
  /\ loop = t
  /\ frame[t].pc = "store_assistant"
  /\ chat_sessions' = AppendMessage(chat_sessions, frame[t].session_id,
                         Message("assistant", Val(frame[t].assistant_message), clock))
  /\ clock' = clock + 1
  /\ frame' = [frame EXCEPT ![t] =
        [@ EXCEPT !.calls = Append(@, Call("append_assistant")), !.pc = "truncate"]]
  /\ observed' = NoObservation
  /\ UNCHANGED <<config, loop, started>>

\* lines 899-918
PrepareTtsText(t) ==
  /\ loop = t
  /\ frame[t].pc = "truncate"
  /\ frame' = [frame EXCEPT ![t] =
        [@ EXCEPT !.tts_text = TruncateForTts(Val(frame[t].assistant_message), MAX_MURF_CHARS),
                  !.calls = Append(@, Call("truncate")),
                  !.pc = "synthesize"]]
  /\ observed' = NoObservation
  /\ UNCHANGED <<chat_sessions, config, clock, loop, started>>

\* TtsErrorType that overwrites an earlier classification
TtsErrorType_Overwrite(error_type, tts_error) ==
  IF Truthy(tts_error) THEN Some("tts_error") ELSE error_type

\* TtsErrorType that never classifies
TtsErrorType_Never(error_type, tts_error) == error_type

\* lines 931-934: error_type after the synthesis attempt
TtsErrorType(error_type, tts_error) ==
  IF Truthy(tts_error) /\ ~Truthy(error_type) THEN Some("tts_error") ELSE error_type

\* Synthesize that takes the warm voice for the fallback text and the neutral
\* voice for a generated reply
Synthesize_SwappedVoices(t) ==
  /\ loop = t
  /\ frame[t].pc = "synthesize"
  /\ \E outcome \in SynthesizerOutcomes :
       LET voice == IF frame[t].fallback_used THEN "en-US-claire" ELSE "en-US-ken"
           style == IF frame[t].fallback_used THEN "Cheerful" ELSE "Neutral"
           r == safe_generate_tts(outcome)
       IN  frame' = [frame EXCEPT ![t] =
             [@ EXCEPT !.voice = voice, !.style = style,
                       !.audio_url = r[1], !.tts_error = r[2],
                       !.calls = @ \o TtsCalls(frame[t].tts_text, voice, style),
                       !.synthesizer_outcome =
                          Some(IF murf_client THEN outcome ELSE NotCalled),
                       !.error_type = TtsErrorType(@, r[2]),
                       !.pc = "cleanup"]]
  /\ observed' = NoObservation
  /\ UNCHANGED <<chat_sessions, config, clock, loop, started>>

\* lines 923-938
Synthesize(t) ==
  /\ loop = t
  /\ frame[t].pc = "synthesize"
  /\ \E outcome \in SynthesizerOutcomes :
       LET voice == IF frame[t].fallback_used THEN "en-US-ken" ELSE "en-US-claire"
           style == IF frame[t].fallback_used THEN "Neutral" ELSE "Cheerful"
           r == safe_generate_tts(outcome)
       IN  frame' = [frame EXCEPT ![t] =
             [@ EXCEPT !.voice = voice, !.style = style,
                       !.audio_url = r[1], !.tts_error = r[2],
                       !.calls = @ \o TtsCalls(frame[t].tts_text, voice, style),
                       !.synthesizer_outcome =
                          Some(IF murf_client THEN outcome ELSE NotCalled),
                       !.error_type = TtsErrorType(@, r[2]),
                       !.pc = "cleanup"]]
  /\ observed' = NoObservation
  /\ UNCHANGED <<chat_sessions, config, clock, loop, started>>

\* TrimHistory that already trims at the threshold
TrimHistory_AtThreshold(sessions, session_id) ==
  LET touched == Touch(sessions, session_id)
  IN  IF Len(touched[session_id]) >= MAX_HISTORY_MESSAGES * 2
        THEN [touched EXCEPT ![session_id] = PyLastN(@, MAX_HISTORY_MESSAGES)]
        ELSE touched

\* TrimHistory that never trims
TrimHistory_Never(sessions, session_id) == Touch(sessions, session_id)

\* TrimHistory that keeps one message more than the window
TrimHistory_OddWindow(sessions, session_id) ==
  LET touched == Touch(sessions, session_id)
  IN  IF Len(touched[session_id]) > MAX_HISTORY_MESSAGES * 2
        THEN [touched EXCEPT ![session_id] = PyLastN(@, MAX_HISTORY_MESSAGES + 1)]
        ELSE touched

\* lines 943-946: chat_sessions after the clean-up of session_id
TrimHistory(sessions, session_id) ==
  LET touched == Touch(sessions, session_id)
  IN  IF Len(touched[session_id]) > MAX_HISTORY_MESSAGES * 2
        THEN [touched EXCEPT ![session_id] = PyLastN(@, MAX_HISTORY_MESSAGES)]
        ELSE touched

\* Cleanup that trims and then waits at the clean-up stage
Cleanup_NoAdvance(t) ==
  /\ loop = t
  /\ frame[t].pc = "cleanup"
  /\ chat_sessions' = TrimHistory(chat_sessions, frame[t].session_id)
  /\ observed' = NoObservation
  /\ UNCHANGED <<config, clock, loop, frame, started>>

\* lines 943-946
Cleanup(t) ==
  /\ loop = t
  /\ frame[t].pc = "cleanup"
  /\ chat_sessions' = TrimHistory(chat_sessions, frame[t].session_id)
  /\ frame' = [frame EXCEPT ![t] =
        [@ EXCEPT !.calls = Append(@, Call("trim")), !.pc = "finalize"]]
  /\ observed' = NoObservation
  /\ UNCHANGED <<config, clock, loop, started>>

\* OverallSuccess that does not count a fallback reply
OverallSuccess_NoFallback(transcript_error, llm_error, fallback_used) ==
  ~(Truthy(transcript_error) \/ Truthy(llm_error))

\* line 949
OverallSuccess(transcript_error, llm_error, fallback_used) ==
  ~(Truthy(transcript_error) \/ (Truthy(llm_error) /\ ~fallback_used))

\* lines 948-988
Finalize(t) ==
  /\ loop = t
  /\ frame[t].pc = "finalize"
  /\ LET f == frame[t]
         overall_success == OverallSuccess(f.transcript_error, f.llm_error, f.fallback_used)
         status_parts ==
           << IF Truthy(f.transcript_error) THEN "Speech recognition failed"
                                            ELSE "Speech recognized",
              IF Truthy(f.llm_error) THEN "Using fallback response"
                                     ELSE "AI response generated",
              IF Truthy(f.tts_error) THEN "Audio generation failed"
                                     ELSE "Audio generated" >>
         touched == Touch(chat_sessions, f.session_id)
     IN  /\ chat_sessions' = touched
         /\ frame' = [frame EXCEPT ![t] =
              [@ EXCEPT !.result = Some(ChatResponse(
                             overall_success, [kind |-> "status", text |-> status_parts],
                             f.audio_url, f.user_message, f.assistant_message,
                             f.session_id, Len(touched[f.session_id]),
                             f.error_type, f.fallback_used)),
                        !.pc = "done"]]
  /\ observed' = NoObservation
  /\ UNCHANGED <<config, clock, loop, started>>

\* HandleUnexpected that re-raises the exception as lines 990-993 do
HandleUnexpected_Reraise(t) ==
  /\ loop = t
  /\ frame[t].pc = "except"
  /\ frame' = [frame EXCEPT ![t].pc = "rejected"]
  /\ observed' = NoObservation
  /\ UNCHANGED <<chat_sessions, config, clock, loop, started>>

\* lines 995-1014
HandleUnexpected(t) ==
  /\ loop = t
  /\ frame[t].pc = "except"
  /\ \E outcome \in SynthesizerOutcomes :
       LET f == frame[t]
           error_type == get_error_type(Val(f.exception))
           fallback_message ==
             IF error_type \in DOMAIN FALLBACK_MESSAGES
               THEN FALLBACK_MESSAGES[error_type] ELSE FALLBACK_MESSAGES.general_error
           fallback_audio == generate_fallback_tts(fallback_message, outcome)
           touched == Touch(chat_sessions, f.session_id)
       IN  /\ chat_sessions' = touched
           /\ frame' = [frame EXCEPT ![t] =
                [@ EXCEPT !.error_type = Some(error_type),
                          !.calls = @ \o FallbackTtsCalls(fallback_message),
                          !.synthesizer_outcome =
                             Some(IF murf_client THEN outcome ELSE NotCalled),
                          !.result = Some(ChatResponse(
                               FALSE, [kind |-> "unexpected", text |-> fallback_message],
                               fallback_audio, f.user_message, Some(fallback_message),
                               f.session_id, Len(touched[f.session_id]),
                               Some(error_type), TRUE)),
                          !.pc = "done"]]
  /\ observed' = NoObservation
  /\ UNCHANGED <<config, clock, loop, started>>

\* the call leaves the handler: with its response (lines 835, 978, 1004) or with
\* the re-raised HTTPException (line 993); its locals are gone
Return(t) ==
  /\ loop = t
  /\ frame[t].pc \in {"done", "rejected"}
  /\ frame' = [frame EXCEPT ![t] = InitialFrame]
  /\ loop' = NoTurn
  /\ observed' = NoObservation
  /\ UNCHANGED <<chat_sessions, config, clock, started>>

\* ------------------------------------------------------- session endpoints
\* GetChatHistory that reads the store by indexing, chat_sessions[session_id]
GetChatHistory_Indexing(s) ==
  /\ loop = NoTurn
  /\ chat_sessions' = Touch(chat_sessions, s)
  /\ observed' = [endpoint |-> "get_chat_history", session_id |-> s,
                   message_count |-> Len(chat_sessions'[s]),
                   messages |-> chat_sessions'[s],
                   max_history |-> MAX_HISTORY_MESSAGES]
  /\ UNCHANGED <<config, clock, loop, frame, started>>

\* lines 1025-1032
GetChatHistory(s) ==
  /\ loop = NoTurn
  /\ LET history == IF s \in DOMAIN chat_sessions THEN chat_sessions[s] ELSE <<>>
     IN  observed' = [endpoint |-> "get_chat_history", session_id |-> s,
                      message_count |-> Len(history), messages |-> history,
                      max_history |-> MAX_HISTORY_MESSAGES]
  /\ UNCHANGED <<chat_sessions, config, clock, loop, frame, started>>

\* ClearChatHistory that empties the session's list and keeps its key
ClearChatHistory_EmptiesList(s) ==
  /\ loop = NoTurn
  /\ IF s \in DOMAIN chat_sessions
       THEN /\ chat_sessions' = [chat_sessions EXCEPT ![s] = <<>>]
            /\ observed' = [endpoint |-> "clear_chat_history", session_id |-> s,
                            success |-> TRUE,
                            message |-> <<"Cleared", Len(chat_sessions[s])>>]
       ELSE /\ chat_sessions' = chat_sessions
            /\ observed' = [endpoint |-> "clear_chat_history", session_id |-> s,
                            success |-> TRUE,
                            message |-> <<"Session not found or already empty", 0>>]
  /\ UNCHANGED <<config, clock, loop, frame, started>>

\* ClearChatHistory that empties the whole store
ClearChatHistory_All(s) ==
  /\ loop = NoTurn
  /\ IF s \in DOMAIN chat_sessions
       THEN /\ chat_sessions' = <<>>
            /\ observed' = [endpoint |-> "clear_chat_history", session_id |-> s,
                            success |-> TRUE,
                            message |-> <<"Cleared", Len(chat_sessions[s])>>]
       ELSE /\ chat_sessions' = chat_sessions
            /\ observed' = [endpoint |-> "clear_chat_history", session_id |-> s,
                            success |-> TRUE,
                            message |-> <<"Session not found or already empty", 0>>]
  /\ UNCHANGED <<config, clock, loop, frame, started>>

\* lines 1043-1056
ClearChatHistory(s) ==
  /\ loop = NoTurn
  /\ IF s \in DOMAIN chat_sessions
       THEN /\ chat_sessions' = [k \in DOMAIN chat_sessions \ {s} |-> chat_sessions[k]]
            /\ observed' = [endpoint |-> "clear_chat_history", session_id |-> s,
                            success |-> TRUE,
                            message |-> <<"Cleared", Len(chat_sessions[s])>>]
       ELSE /\ chat_sessions' = chat_sessions
            /\ observed' = [endpoint |-> "clear_chat_history", session_id |-> s,
                            success |-> TRUE,
                            message |-> <<"Session not found or already empty", 0>>]
  /\ UNCHANGED <<config, clock, loop, frame, started>>

\* ListSessions without the test "if messages"; an empty session has no times (0)
ListSessions_NoFilter ==
  /\ loop = NoTurn
  /\ LET sessions ==
           { [session_id |-> k,
              message_count |-> Len(chat_sessions[k]),
              last_message_time |->
                 IF Len(chat_sessions[k]) > 0
                   THEN chat_sessions[k][Len(chat_sessions[k])].timestamp ELSE 0,
              first_message_time |->
                 IF Len(chat_sessions[k]) > 0 THEN chat_sessions[k][1].timestamp ELSE 0] :
             k \in DOMAIN chat_sessions }
     IN  observed' = [endpoint |-> "list_sessions",
                      total_sessions |-> Cardinality(sessions), sessions |-> sessions]
  /\ UNCHANGED <<chat_sessions, config, clock, loop, frame, started>>

\* lines 1063-1076; the entries are kept as a set, their order is not modelled
ListSessions ==
  /\ loop = NoTurn
  /\ LET sessions ==
           { [session_id |-> k,
              message_count |-> Len(chat_sessions[k]),
              last_message_time |-> chat_sessions[k][Len(chat_sessions[k])].timestamp,
              first_message_time |-> chat_sessions[k][1].timestamp] :
             k \in {j \in DOMAIN chat_sessions : Len(chat_sessions[j]) > 0} }
     IN  observed' = [endpoint |-> "list_sessions",
                      total_sessions |-> Cardinality(sessions), sessions |-> sessions]
  /\ UNCHANGED <<chat_sessions, config, clock, loop, frame, started>>

\* ------------------------------------------------------------ specification
Next ==
  \/ \E t \in Turns, s \in Sessions, ct \in ContentTypes : Start(t, s, ct)
  \/ \E t \in Turns : ReadAudio(t)
  \/ \E t \in Turns : Transcribe(t)
  \/ \E t \in Turns : SttFallback(t)
  \/ \E t \in Turns : StoreUser(t)
  \/ \E t \in Turns : BuildContext(t)
  \/ \E t \in Turns : Generate(t)
  \/ \E t \in Turns : StoreAssistant(t)
  \/ \E t \in Turns : PrepareTtsText(t)
  \/ \E t \in Turns : Synthesize(t)
  \/ \E t \in Turns : Cleanup(t)
  \/ \E t \in Turns : Finalize(t)
  \/ \E t \in Turns : HandleUnexpected(t)
  \/ \E t \in Turns : Return(t)
  \/ \E s \in Sessions : GetChatHistory(s)
  \/ \E s \in Sessions : ClearChatHistory(s)
  \/ ListSessions

Spec == Init /\ [][Next]_vars

\* the steps of call t of chat_with_history after its start
TurnStep(t) ==
  \/ ReadAudio(t) \/ Transcribe(t) \/ SttFallback(t) \/ StoreUser(t)
  \/ BuildContext(t) \/ Generate(t) \/ StoreAssistant(t) \/ PrepareTtsText(t)
  \/ Synthesize(t) \/ Cleanup(t) \/ Finalize(t) \/ HandleUnexpected(t) \/ Return(t)

\* the event loop of uvicorn.run (line 1118) keeps running the calls that are
\* ready, and every call of an external service returns or raises
FairSpec == Spec /\ \A t \in Turns : WF_vars(TurnStep(t))

\* ------------------------------------------ the truncation on chosen replies
\* a text of n characters "a" that has c at index p and d at index q (0-based)
Marked(p, c, q, d, n) ==
  Repeat("a", p) \o c \o Repeat("a", q - p - 1) \o d \o Repeat("a", n - q - 1)

\* the 0-based indices around 0.8 * MAX_MURF_CHARS and around the window's end
MarkNearThreshold == {(8 * MAX_MURF_CHARS) \div 10 + k : k \in {-1, 0, 1}}
MarkNearEnd == {MAX_MURF_CHARS + k : k \in {-3, -2, -1, 0}}
ReplyLengths == {MAX_MURF_CHARS, MAX_MURF_CHARS + 1, MAX_MURF_CHARS + 10}

\* replies of Gemini after strip(): a short one, and long ones with a sentence
\* terminator, a space or neither near the threshold and near the window's end
TruncationTexts ==
  {TEXT_HI_THERE}
    \cup { Marked(p, c, q, d, n) :
             p \in MarkNearThreshold, c \in {".", "!", "?", " ", "a"},
             q \in MarkNearEnd, d \in {".", " ", "a"},
             n \in {m \in ReplyLengths : m > MAX_MURF_CHARS} }
    \cup { Marked(p, c, q, d, MAX_MURF_CHARS) :
             p \in MarkNearThreshold, c \in {".", " ", "a"},
             q \in MarkNearEnd \ {MAX_MURF_CHARS}, d \in {".", " ", "a"} }

\* the state of a call after lines 825-895: the transcript and the reply text
\* are stored in a new session and the reply is about to be prepared for Murf
TruncInit ==
  /\ murf_client = TRUE
  /\ aai_transcriber = TRUE
  /\ gemini_client = TRUE
  /\ clock = 3
  /\ loop = 1
  /\ started = 1
  /\ observed = NoObservation
  /\ \E text \in TruncationTexts :
       /\ chat_sessions =
            ("s1" :> <<Message("user", TEXT_HELLO, 1), Message("assistant", text, 2)>>)
       /\ frame = [t \in Turns |->
            IF t = 1
              THEN [InitialFrame EXCEPT
                      !.pc = "truncate", !.session_id = "s1",
                      !.content_type = Some("audio/wav"),
                      !.user_message = Some(TEXT_HELLO),
                      !.assistant_message = Some(text),
                      !.conversation_prompt = BuildPrompt(<<Message("user", TEXT_HELLO, 1)>>),
                      !.calls = <<Call("safe_transcribe_audio"), Call("aai.transcribe"),
                                  Call("append_user"),
                                  Call("safe_generate_llm_response"),
                                  Call("gemini.generate_content"),
                                  Call("append_assistant")>>,
                      !.transcriber_outcome =
                         Some([kind |-> "completed", text |-> Some(TEXT_HELLO), ref |-> ""]),
                      !.responder_outcome =
                         Some([kind |-> "response", text |-> Some(text), ref |-> ""])]
              ELSE InitialFrame]

\* lines 899-988: the rest of the call
TruncNext ==
  \/ \E t \in Turns : PrepareTtsText(t)
  \/ \E t \in Turns : Synthesize(t)
  \/ \E t \in Turns : Cleanup(t)
  \/ \E t \in Turns : Finalize(t)
  \/ \E t \in Turns : Return(t)

TruncSpec == TruncInit /\ [][TruncNext]_vars

\* ------------------------------------------------- the direct LLM query
\* query_llm for a valid text query, from the Gemini reply on (lines 685-766):
\* the reply is stripped, truncated for Murf and synthesized; a missing client
\* or a failing Murf call ends the request with an HTTP error
QueryLlm ==
  /\ loop = NoTurn
  /\ \E reply \in TruncationTexts, outcome \in SynthesizerOutcomes :
       LET full_response == PyStrip(reply)
           llm_text == TruncateForLlmAudio(full_response, MAX_MURF_CHARS)
       IN  observed' =
             IF ~gemini_client \/ ~murf_client
               THEN [endpoint |-> "query_llm", status |-> 500, full_response |-> "",
                     murf_text |-> "", audio_url |-> None]
             ELSE IF outcome.kind = "raise"
               THEN [endpoint |-> "query_llm", status |-> 500,
                     full_response |-> full_response, murf_text |-> llm_text,
                     audio_url |-> None]
             ELSE [endpoint |-> "query_llm", status |-> 200,
                   full_response |-> full_response, murf_text |-> llm_text,
                   audio_url |-> ExtractAudioUrl(outcome)]
  /\ UNCHANGED <<chat_sessions, config, clock, loop, frame, started>>

\* the server after start-up, with or without its clients, and no session yet
QueryInit ==
  /\ murf_client \in BOOLEAN
  /\ aai_transcriber = TRUE
  /\ gemini_client \in BOOLEAN
  /\ chat_sessions = <<>>
  /\ clock = 1
  /\ loop = NoTurn
  /\ frame = [t \in Turns |-> InitialFrame]
  /\ started = 0
  /\ observed = NoObservation

\* one query per behaviour: the replies are tried one by one, each from start-up
QueryNext == observed = NoObservation /\ QueryLlm

QuerySpec == QueryInit /\ [][QueryNext]_vars

\* ------------------------------------------- the handler on chosen errors
\* texts of exceptions: each term of get_error_type in a message, the texts the
\* read raises, texts with terms of two classes and texts with none
ErrorTexts ==
  { "AssemblyAI error", "Transcription failed", "speech not recognized",
    "Gemini quota exceeded", "LLM unavailable", "generate_content failed",
    "Murf API error", "TTS failed", "text_to_speech failed",
    "'NoneType' object has no attribute 'text_to_speech'",
    "Connection refused", "Network unreachable", "Read Timeout",
    "closed file", "", "Gemini TTS", "Murf connection reset",
    "speech and text_to_speech" }

\* the state of a call whose body raised an exception other than HTTPException
\* (lines 806-990): the session exists since line 810 and the handler of line
\* 995 is about to run
ClassifyInit ==
  /\ murf_client \in BOOLEAN
  /\ aai_transcriber \in BOOLEAN
  /\ gemini_client \in BOOLEAN
  /\ clock = 1
  /\ loop = 1
  /\ started = 1
  /\ observed = NoObservation
  /\ \E s \in Sessions, e \in ErrorTexts :
       /\ chat_sessions = (s :> <<>>)
       /\ frame = [t \in Turns |->
            IF t = 1
              THEN [InitialFrame EXCEPT
                      !.pc = "except", !.session_id = s,
                      !.content_type = Some("audio/wav"),
                      !.exception = Some(e)]
              ELSE InitialFrame]

\* lines 995-1014: the handler and the return of its response
ClassifyNext ==
  \/ \E t \in Turns : HandleUnexpected(t)
  \/ \E t \in Turns : Return(t)

ClassifySpec == ClassifyInit /\ [][ClassifyNext]_vars

\* =========================================================== properties
\* what the services did in a call, read off the recorded outcomes
Blank(text) == \A i \in 1..Len(text) : Char(text, i) = " "

Session(f) ==
  IF f.session_id \in DOMAIN chat_sessions THEN chat_sessions[f.session_id] ELSE <<>>

TranscriberCalled(f) == ~IsNone(f.transcriber_outcome)

TranscriberFailed(f) ==
  /\ TranscriberCalled(f)
  /\ LET o == Val(f.transcriber_outcome)
     IN  \/ o.kind \in {"not_called", "raise", "status_error"}
         \/ IsNone(o.text)
         \/ Blank(Val(o.text))

TranscriberSucceeded(f) == TranscriberCalled(f) /\ ~TranscriberFailed(f)

ResponderCalled(f) == ~IsNone(f.responder_outcome)

ResponderFailed(f) ==
  /\ ResponderCalled(f)
  /\ LET o == Val(f.responder_outcome)
     IN  \/ o.kind \in {"not_called", "raise"}
         \/ IsNone(o.text)
         \/ Val(o.text) = ""

ResponderSucceeded(f) == ResponderCalled(f) /\ ~ResponderFailed(f)

\* the normal synthesis stage ran (not the fallback synthesis of a failed turn)
SynthesisAttempted(f) ==
  \E i \in 1..Len(f.calls) : f.calls[i].op = "safe_generate_tts"

SynthesizerFailed(f) ==
  /\ SynthesisAttempted(f)
  /\ Val(f.synthesizer_outcome).kind \in {"not_called", "raise"}

SynthesizerSucceeded(f) == SynthesisAttempted(f) /\ ~SynthesizerFailed(f)

Returned(f) == f.pc = "done"

\* x is text without its leading and trailing blanks
IsStripped(x, text) ==
  /\ Len(x) > 0 /\ Char(x, 1) # " " /\ Char(x, Len(x)) # " "
  /\ \E a \in 0..(Len(text) - Len(x)) :
       /\ SubSeq(text, a + 1, a + Len(x)) = x
       /\ \A i \in (1..a) \cup ((a + Len(x) + 1)..Len(text)) : Char(text, i) = " "

\* C1: whenever the Transcriber returns an error (service unconfigured,
\* transcription failure, or no or blank text) the Turn Result has success
\* false, no transcript and error_type stt_error, and nothing is appended: the
\* session's history and the reported message_count are those of before the call.
C1_FallbackLaw ==
  \A t \in Turns :
    LET f == frame[t]
    IN  TranscriberFailed(f) =>
          /\ f.pc \in {"stt_fallback", "done"}
          /\ Session(f) = f.history_before
          /\ Returned(f) =>
               /\ Val(f.result).success = FALSE
               /\ Val(f.result).transcript = None
               /\ Val(f.result).error_type = Some("stt_error")
               /\ Val(f.result).message_count = Len(f.history_before)

C1_Witness ==
  \E t \in Turns :
    /\ Returned(frame[t])
    /\ TranscriberFailed(frame[t])
    /\ Val(frame[t].transcriber_outcome).text = Some(" ")
    /\ Len(frame[t].history_before) > 0
    /\ Val(frame[t].result).message_count = Len(frame[t].history_before)

\* C2: if the Transcriber succeeds and the Responder fails, the session gains
\* exactly two messages, the user transcript and then the fixed llm_error
\* fallback text as the assistant message, and the Turn Result has
\* fallback_used true, error_type llm_error, llm_response equal to that fallback
\* text, and success true whether the synthesis succeeds or fails.
C2_DegradationLaw ==
  \A t \in Turns :
    LET f == frame[t]
        n == Len(f.history_before)
    IN  (TranscriberSucceeded(f) /\ ResponderFailed(f)) =>
          /\ f.pc \in {"truncate", "synthesize", "cleanup"} =>
               /\ Len(Session(f)) = n + 2
               /\ SubSeq(Session(f), 1, n) = f.history_before
               /\ Session(f)[n + 1].role = "user"
               /\ Session(f)[n + 1].content = Val(f.user_message)
               /\ Session(f)[n + 2].role = "assistant"
               /\ Session(f)[n + 2].content = FALLBACK_MESSAGES.llm_error
          /\ Returned(f) =>
               /\ Val(f.result).fallback_used = TRUE
               /\ Val(f.result).error_type = Some("llm_error")
               /\ Val(f.result).llm_response = Some(FALLBACK_MESSAGES.llm_error)
               /\ Val(f.result).success = TRUE

C2_Witness ==
  \E t \in Turns :
    /\ Returned(frame[t])
    /\ TranscriberSucceeded(frame[t])
    /\ ResponderFailed(frame[t])
    /\ SynthesizerFailed(frame[t])
    /\ Len(frame[t].history_before) > 0
    /\ Val(frame[t].result).success = TRUE

\* C3: for every Turn Result, success is true if and only if transcription
\* succeeded and (generation succeeded or a fallback was used).
C3_SuccessIff ==
  \A t \in Turns :
    LET f == frame[t]
    IN  Returned(f) =>
          (Val(f.result).success = TRUE
             <=> (TranscriberSucceeded(f)
                    /\ (ResponderSucceeded(f) \/ Val(f.result).fallback_used)))

C3_Witness ==
  \E t \in Turns :
    /\ Returned(frame[t])
    /\ TranscriberSucceeded(frame[t])
    /\ ResponderFailed(frame[t])
    /\ SynthesizerSucceeded(frame[t])
    /\ Val(frame[t].result).fallback_used = TRUE
    /\ Val(frame[t].result).success = TRUE

\* C4: a Turn Result carries one error classification, chosen by the earliest
\* failing stage: stt_error if transcription failed; otherwise llm_error if
\* generation failed, also when synthesis fails afterwards; tts_error when and
\* only when synthesis failed and no earlier stage did; and none when all three
\* stages succeed.
C4_EarliestFailureClassifies ==
  \A t \in Turns :
    LET f == frame[t]
        error_type == Val(f.result).error_type
    IN  Returned(f) =>
          /\ error_type = None \/ (Len(error_type) = 1 /\ Val(error_type) \in ERROR_TYPES)
          /\ TranscriberFailed(f) => error_type = Some("stt_error")
          /\ (TranscriberSucceeded(f) /\ ResponderFailed(f)) => error_type = Some("llm_error")
          /\ (TranscriberSucceeded(f) /\ ResponderSucceeded(f) /\ SynthesizerFailed(f))
               => error_type = Some("tts_error")
          /\ error_type = Some("tts_error")
               => (SynthesizerFailed(f) /\ ResponderSucceeded(f) /\ TranscriberSucceeded(f))
          /\ (TranscriberSucceeded(f) /\ ResponderSucceeded(f) /\ SynthesizerSucceeded(f))
               => error_type = None

C4_Witness ==
  \E t \in Turns :
    /\ Returned(frame[t])
    /\ TranscriberSucceeded(frame[t])
    /\ ResponderFailed(frame[t])
    /\ SynthesizerFailed(frame[t])
    /\ Val(frame[t].result).error_type = Some("llm_error")

\* C5: when the Transcriber, the Responder and the Synthesizer all succeed, the
\* Turn Result has success true, the transcribed text as transcript, the
\* Responder's reply as llm_response, the Synthesizer's reference as audio_url,
\* no error_type, fallback_used false, and as message_count the number of
\* messages stored for the session when the result is produced: 2 for a first
\* turn on an empty session.
C5_HappyPath ==
  \A t \in Turns :
    LET f == frame[t]
        r == Val(f.result)
        n == Len(f.history_before)
    IN  (Returned(f) /\ TranscriberSucceeded(f) /\ ResponderSucceeded(f)
           /\ SynthesizerSucceeded(f)) =>
          /\ r.success = TRUE
          /\ ~IsNone(r.transcript)
          /\ IsStripped(Val(r.transcript), Val(Val(f.transcriber_outcome).text))
          /\ ~IsNone(r.llm_response)
          /\ \/ IsStripped(Val(r.llm_response), Val(Val(f.responder_outcome).text))
             \/ Val(r.llm_response) = "" /\ Blank(Val(Val(f.responder_outcome).text))
          /\ r.audio_url = Some(Val(f.synthesizer_outcome).ref)
          /\ r.error_type = None
          /\ r.fallback_used = FALSE
          /\ r.session_id = f.session_id
          /\ r.message_count = Len(Session(f))
          /\ r.message_count =
               IF n + 2 > 2 * MAX_HISTORY_MESSAGES THEN MAX_HISTORY_MESSAGES ELSE n + 2

C5_Witness ==
  \E t \in Turns :
    /\ Returned(frame[t])
    /\ TranscriberSucceeded(frame[t])
    /\ ResponderSucceeded(frame[t])
    /\ SynthesizerSucceeded(frame[t])
    /\ frame[t].history_before = <<>>
    /\ Val(frame[t].result).transcript = Some(TEXT_HELLO)
    /\ Val(frame[t].result).llm_response = Some(TEXT_HI_THERE)
    /\ Val(frame[t].result).audio_url = Some("a1")
    /\ Val(frame[t].result).message_count = 2

\* the operations of the calls a turn has made, in order
Ops(f) == [i \in 1..Len(f.calls) |-> f.calls[i].op]

\* C6: when transcription fails the turn returns at once: the Responder is not
\* called, no message is stored, neither the synthesis stage nor the trim
\* runs, and the only call after the failure is the fallback synthesis of the
\* fixed stt_error message.
C6_NoStageAfterSttFailure ==
  \A t \in Turns :
    LET f == frame[t]
        after == SubSeq(f.calls, Len(TranscribeCalls) + 1, Len(f.calls))
    IN  TranscriberFailed(f) =>
          /\ f.pc \in {"stt_fallback", "done"}
          /\ IsNone(f.responder_outcome)
          /\ Session(f) = f.history_before
          /\ \A i \in 1..Len(after) :
               /\ after[i].op \in {"generate_fallback_tts", "murf.generate"}
               /\ after[i].op = "murf.generate" =>
                     /\ after[i].text = FALLBACK_MESSAGES.stt_error
                     /\ i = 2
          /\ Len(after) <= 2
          /\ Returned(f) => (Len(after) >= 1 /\ after[1].op = "generate_fallback_tts")

C6_Witness ==
  \E t \in Turns :
    /\ Returned(frame[t])
    /\ TranscriberFailed(frame[t])
    /\ Ops(frame[t]) = <<"safe_transcribe_audio", "aai.transcribe",
                         "generate_fallback_tts", "murf.generate">>

\* C7: if transcription and generation succeed and the Synthesizer fails, the
\* turn still returns a successful text result: success true, no audio_url,
\* the real transcript and reply, error_type tts_error, fallback_used false,
\* and both the user and the assistant message are stored.
C7_TtsFailureKeepsText ==
  \A t \in Turns :
    LET f == frame[t]
        r == Val(f.result)
        n == Len(f.history_before)
    IN  (TranscriberSucceeded(f) /\ ResponderSucceeded(f) /\ SynthesizerFailed(f)) =>
          /\ f.pc = "cleanup" =>
               /\ Len(Session(f)) = n + 2
               /\ Session(f)[n + 1].role = "user"
               /\ Session(f)[n + 1].content = Val(f.user_message)
               /\ Session(f)[n + 2].role = "assistant"
               /\ Session(f)[n + 2].content = Val(f.assistant_message)
          /\ Returned(f) =>
               /\ r.success = TRUE
               /\ r.audio_url = None
               /\ ~IsNone(r.transcript)
               /\ IsStripped(Val(r.transcript), Val(Val(f.transcriber_outcome).text))
               /\ ~IsNone(r.llm_response)
               /\ \/ IsStripped(Val(r.llm_response), Val(Val(f.responder_outcome).text))
                  \/ Val(r.llm_response) = "" /\ Blank(Val(Val(f.responder_outcome).text))
               /\ r.error_type = Some("tts_error")
               /\ r.fallback_used = FALSE
               /\ LET h == Session(f)
                  IN  /\ Len(h) >= 2
                      /\ h[Len(h) - 1].role = "user"
                      /\ h[Len(h) - 1].content = Val(r.transcript)
                      /\ h[Len(h)].role = "assistant"
                      /\ h[Len(h)].content = Val(r.llm_response)

C7_Witness ==
  \E t \in Turns :
    /\ Returned(frame[t])
    /\ TranscriberSucceeded(frame[t])
    /\ ResponderSucceeded(frame[t])
    /\ SynthesizerFailed(frame[t])
    /\ Val(frame[t].result).error_type = Some("tts_error")
    /\ Val(frame[t].result).llm_response = Some(TEXT_HI_THERE)


\* C8: when a session holds more than 2N messages (N = 20, threshold 40) as a
\* turn's trim step runs, the step leaves exactly its N most recent messages in
\* their order; when it holds 2N or fewer the step leaves the history as it is.
C8_TrimLaw ==
  [][\A t \in Turns :
       (frame[t].pc = "cleanup" /\ frame'[t].pc = "finalize") =>
         LET s == frame[t].session_id
             old == chat_sessions[s]
             new == chat_sessions'[s]
         IN  /\ MAX_HISTORY_MESSAGES = 20
             /\ IF Len(old) > 40
                  THEN /\ Len(new) = 20
                       /\ \A i \in 1..20 : new[i] = old[Len(old) - 20 + i]
                  ELSE new = old]_vars

C8_Witness ==
  \E t \in Turns :
    /\ frame[t].pc = "finalize"
    /\ Len(frame[t].history_before) = 40
    /\ Len(Session(frame[t])) = 20
    /\ Session(frame[t])[1] = frame[t].history_before[23]

\* C9: whatever the interleaving of turns, clears and reads, no observer (get
\* history, list sessions, the message_count of a Turn Result) sees a session
\* with more than 2N = 40 messages, and none is stored once the turn that added
\* the messages has returned.
C9_HardCap ==
  /\ loop = NoTurn => \A k \in DOMAIN chat_sessions : Len(chat_sessions[k]) <= 40
  /\ observed.endpoint = "get_chat_history" =>
       (observed.message_count <= 40 /\ Len(observed.messages) <= 40)
  /\ observed.endpoint = "list_sessions" =>
       \A e \in observed.sessions : e.message_count <= 40
  /\ \A t \in Turns : Returned(frame[t]) =>
       (Val(frame[t].result).message_count <= 40 /\ Len(Session(frame[t])) <= 40)

C9_Witness ==
  /\ observed.endpoint = "get_chat_history"
  /\ observed.message_count = 20
  /\ observed.messages[1].timestamp = 23
  /\ \E t \in Turns : frame[t].pc = "await_read" /\ frame[t].session_id = observed.session_id

\* C10: the prompt handed to the Responder is built from the at most N = 20 most
\* recent stored messages of the session, in insertion order, each labelled by
\* its role; its last message is the user message transcribed in this turn; no
\* older message is included; and the instruction to continue the conversation
\* is appended exactly when the window holds more than one message.
C10_PromptWindow ==
  \A t \in Turns :
    LET f == frame[t]
        h == Session(f)
        w == IF Len(h) < 20 THEN Len(h) ELSE 20
        p == f.conversation_prompt
    IN  f.pc = "generate" =>
          /\ w >= 1
          /\ Len(p) = 1 + w + (IF w > 1 THEN 1 ELSE 0)
          /\ p[1].kind = "system"
          /\ \A i \in 1..w :
               /\ p[1 + i].kind = "message"
               /\ p[1 + i].content = h[Len(h) - w + i].content
               /\ p[1 + i].label = (IF h[Len(h) - w + i].role = "user" THEN "User"
                                    ELSE "Assistant")
          /\ p[1 + w].label = "User"
          /\ p[1 + w].content = Val(f.user_message)
          /\ h[Len(h)].timestamp = clock - 1
          /\ w > 1 => p[Len(p)].kind = "continue"
          /\ \A i \in 1..Len(p) : p[i].kind = "continue" => (w > 1 /\ i = Len(p))

C10_Witness ==
  \E t \in Turns :
    /\ frame[t].pc = "generate"
    /\ Len(Session(frame[t])) = 41
    /\ Len(frame[t].conversation_prompt) = 22
    /\ frame[t].conversation_prompt[22].kind = "continue"
    /\ frame[t].conversation_prompt[21].content = TEXT_HELLO

\* the sequence stored for session s, empty when the store has no such key
Stored(sessions, s) == IF s \in DOMAIN sessions THEN sessions[s] ELSE <<>>

C12_GetCreatesNoSession ==
  [][observed'.endpoint = "get_chat_history" =>
       /\ DOMAIN chat_sessions' = DOMAIN chat_sessions
       /\ chat_sessions' = chat_sessions
       /\ observed'.session_id \notin DOMAIN chat_sessions =>
            (observed'.messages = <<>> /\ observed'.message_count = 0)
    ]_vars

\* get of a session that does not exist, beside one that does
C12_Witness ==
  /\ observed.endpoint = "get_chat_history"
  /\ observed.session_id \notin DOMAIN chat_sessions
  /\ observed.messages = <<>>
  /\ observed.message_count = 0
  /\ DOMAIN chat_sessions # {}

\* C13 as stated: clear(session_id) deletes the session's sequence entirely, so
\* that a following get returns an empty sequence and the session is no longer
\* listed, and its return value tells whether a session existed to delete:
\* true when one existed, false when none did.
C13_ClearReportsExistence ==
  [][observed'.endpoint = "clear_chat_history" =>
       /\ observed'.session_id \notin DOMAIN chat_sessions'
       /\ observed'.success = (observed'.session_id \in DOMAIN chat_sessions)
    ]_vars

\* C13 as amended: clear(session_id) deletes the session's sequence entirely
\* (its key leaves the store and no other session changes), so that a
\* following get returns an empty sequence with message_count 0 and a
\* following list does not name the session; its return value reports
\* success true whether or not a session existed, and only its message tells
\* the two cases apart: the number of messages cleared when one existed,
\* "Session not found or already empty" when none did.
C13_ClearDeletes ==
  [][/\ observed'.endpoint = "clear_chat_history" =>
          LET s == observed'.session_id
          IN  /\ s \notin DOMAIN chat_sessions'
              /\ DOMAIN chat_sessions' = DOMAIN chat_sessions \ {s}
              /\ \A k \in DOMAIN chat_sessions' : chat_sessions'[k] = chat_sessions[k]
              /\ observed'.success = TRUE
              /\ observed'.message =
                    IF s \in DOMAIN chat_sessions
                      THEN <<"Cleared", Len(chat_sessions[s])>>
                      ELSE <<"Session not found or already empty", 0>>
     /\ (observed.endpoint = "clear_chat_history" /\ observed'.endpoint = "get_chat_history"
           /\ observed'.session_id = observed.session_id) =>
          (observed'.messages = <<>> /\ observed'.message_count = 0)
     /\ (observed.endpoint = "clear_chat_history" /\ observed'.endpoint = "list_sessions") =>
          \A e \in observed'.sessions : e.session_id # observed.session_id
    ]_vars

\* a session that held messages has just been cleared
C13_Witness ==
  /\ observed.endpoint = "clear_chat_history"
  /\ observed.success = TRUE
  /\ observed.message[1] = "Cleared"
  /\ observed.message[2] = 2 * MAX_HISTORY_MESSAGES
  /\ observed.session_id \notin DOMAIN chat_sessions

\* C14: list() returns exactly the sessions that hold at least one message,
\* one entry per session, each with its identifier, its current message count
\* and the timestamps of its first and last stored message; a session whose
\* sequence is empty (never written, or created only by a failed or rejected
\* turn) is never listed.
C14_ListNonEmptySessions ==
  observed.endpoint = "list_sessions" =>
    /\ {e.session_id : e \in observed.sessions} =
         {k \in DOMAIN chat_sessions : Len(chat_sessions[k]) >= 1}
    /\ \A e \in observed.sessions :
         LET h == chat_sessions[e.session_id]
         IN  /\ e.message_count = Len(h)
             /\ e.first_message_time = h[1].timestamp
             /\ e.last_message_time = h[Len(h)].timestamp
             /\ Cardinality({d \in observed.sessions : d.session_id = e.session_id}) = 1
    /\ observed.total_sessions = Cardinality(observed.sessions)
    /\ \A k \in Sessions \ DOMAIN chat_sessions :
         \A e \in observed.sessions : e.session_id # k

\* a list taken while one session holds messages and another has a key with an
\* empty sequence, left by a rejected or failed turn
C14_Witness ==
  /\ observed.endpoint = "list_sessions"
  /\ observed.total_sessions = 1
  /\ \E k \in DOMAIN chat_sessions :
       /\ chat_sessions[k] = <<>>
       /\ \A e \in observed.sessions : e.session_id # k
  /\ \E e \in observed.sessions : e.message_count = 2 /\ e.first_message_time + 1 = e.last_message_time

\* the truncation of lines 899-918 has acted in the call with locals f
Prepared(f) == f.pc \in {"synthesize", "cleanup", "finalize", "done"}

\* the texts handed to Murf by the synthesis stage of the call
SynthesizedTexts(f) ==
  {f.calls[i].text : i \in {j \in 1..Len(f.calls) : f.calls[j].op = "murf.generate"}}

IsTerminator(ch) == ch \in {".", "!", "?"}

\* the 0-based indices, within the first max_chars characters of text, of the
\* sentence terminators at or after 0.8 * max_chars
QualifyingTerminators(text, max_chars) ==
  {i \in 0..(Min2(Len(text), max_chars) - 1) :
     10 * i >= 8 * max_chars /\ IsTerminator(Char(text, i + 1))}

\* C15: truncation is the identity on short text: for every text T with
\* len(T) <= max_chars (3000 before synthesis), the text prepared for and
\* handed to the Synthesizer is exactly T.
C15_ShortTextUnchanged ==
  \A t \in Turns :
    LET f == frame[t]
    IN  (Prepared(f) /\ Len(Val(f.assistant_message)) <= 3000) =>
          /\ MAX_MURF_CHARS = 3000
          /\ f.tts_text = Val(f.assistant_message)
          /\ SynthesizedTexts(f) \subseteq {Val(f.assistant_message)}
          /\ f.pc # "synthesize" => SynthesizedTexts(f) # {}

\* a reply of exactly 3000 characters without any boundary was handed to Murf
C15_Witness ==
  \E t \in Turns :
    /\ frame[t].pc = "cleanup"
    /\ Len(Val(frame[t].assistant_message)) = MAX_MURF_CHARS
    /\ QualifyingTerminators(Val(frame[t].assistant_message), MAX_MURF_CHARS) = {}
    /\ SynthesizedTexts(frame[t]) = {Val(frame[t].assistant_message)}

\* C16: for every text T with len(T) > max_chars whose first max_chars
\* characters contain a sentence terminator ('.', '!' or '?') at an index at or
\* after 0.8 * max_chars, the truncated result ends exactly at the rightmost
\* such terminator, inclusive, with no ellipsis appended.
C16_CutsAtQualifyingTerminator ==
  \A t \in Turns :
    LET f == frame[t]
        T == Val(f.assistant_message)
        Q == QualifyingTerminators(T, MAX_MURF_CHARS)
    IN  (Prepared(f) /\ Len(T) > MAX_MURF_CHARS /\ Q # {}) =>
          LET r == CHOOSE i \in Q : \A j \in Q : j <= i
          IN  /\ f.tts_text = SubSeq(T, 1, r + 1)
              /\ IsTerminator(Char(f.tts_text, Len(f.tts_text)))
              /\ PyLastN(f.tts_text, 3) # Ellipsis

\* C17: for every text T with len(T) > max_chars and no qualifying sentence
\* terminator in the window, the truncated result has length at most
\* max_chars + 3 and ends with the ellipsis marker "...".
C17_EllipsisWithinBudgetPlus3 ==
  \A t \in Turns :
    LET f == frame[t]
        T == Val(f.assistant_message)
    IN  (Prepared(f) /\ Len(T) > MAX_MURF_CHARS
           /\ QualifyingTerminators(T, MAX_MURF_CHARS) = {}) =>
          /\ Len(f.tts_text) <= MAX_MURF_CHARS + 3
          /\ Len(f.tts_text) >= 3
          /\ PyLastN(f.tts_text, 3) = "..."
          /\ SynthesizedTexts(f) \subseteq {f.tts_text}

\* a long reply without any boundary became its window and the ellipsis
C17_Witness ==
  \E t \in Turns :
    /\ frame[t].pc = "cleanup"
    /\ Len(Val(frame[t].assistant_message)) > MAX_MURF_CHARS
    /\ frame[t].tts_text = Repeat("a", MAX_MURF_CHARS) \o "..."
    /\ SynthesizedTexts(frame[t]) = {frame[t].tts_text}

\* C18: truncation is idempotent: for every text T and budget max_chars,
\* truncate(truncate(T, max_chars), max_chars) = truncate(T, max_chars); the
\* text prepared for the Synthesizer is left as it is by a second truncation.
C18_Idempotent ==
  \A t \in Turns :
    Prepared(frame[t]) =>
      TruncateForTts(frame[t].tts_text, MAX_MURF_CHARS) = frame[t].tts_text

\* C19: if two turns for the same session execute concurrently, their history
\* mutations are serialized: in every stored history each user message is
\* immediately followed by the assistant message of the same turn (the very
\* next append of the process), or is the last message while its turn is
\* between its two appends; every assistant message follows its user
\* message; no message is lost or duplicated, a turn's two messages follow
\* the history the turn found when it completed its transcription; and the
\* order of the messages is the order of the appends.
C19_SerializedHistory ==
  /\ \A k \in DOMAIN chat_sessions :
       LET h == chat_sessions[k]
       IN  /\ \A i \in 1..(Len(h) - 1) : h[i].timestamp < h[i + 1].timestamp
           /\ \A i \in 1..Len(h) :
                /\ h[i].role = "user" =>
                     IF i < Len(h)
                       THEN /\ h[i + 1].role = "assistant"
                            /\ h[i + 1].timestamp = h[i].timestamp + 1
                       ELSE \E t \in Turns :
                              /\ loop = t
                              /\ frame[t].session_id = k
                              /\ frame[t].pc \in {"build_context", "generate", "store_assistant"}
                              /\ h[i].content = Val(frame[t].user_message)
                /\ h[i].role = "assistant" => (i > 1 /\ h[i - 1].role = "user")
  /\ \A t \in Turns :
       frame[t].pc \in {"truncate", "synthesize", "cleanup"} =>
         Session(frame[t]) =
           frame[t].history_before
             \o <<Message("user", Val(frame[t].user_message), clock - 2),
                  Message("assistant", Val(frame[t].assistant_message), clock - 1)>>

\* the second call slot is taken only while the first is in flight: the turn in
\* it has stored its two messages behind those of the turn it overlapped with,
\* both on a session that did not exist before
C19_Witness ==
  /\ frame[2].pc = "truncate"
  /\ frame[1].pc = "idle"
  /\ started = 2
  /\ Len(frame[2].history_before) = 2
  /\ frame[2].history_before[1].timestamp = 2 * MAX_HISTORY_MESSAGES + 1
  /\ Len(Session(frame[2])) = 4
  /\ Session(frame[2])[3].content = Val(frame[2].user_message)

\* C20: any unanticipated failure raised inside chat_with_history, other than
\* the invalid-content-type rejection, is caught and converted into a Turn
\* Result with success false, an error_type from the five classes, the class's
\* fixed fallback message, and the transcript obtained so far (null if none);
\* the caller never observes an unstructured failure: a call leaves with a
\* raised error only when its content type is invalid.
C20_UnexpectedBecomesResult ==
  [][\A t \in Turns :
       /\ (frame[t].pc = "except" /\ frame'[t] # frame[t]) =>
            /\ frame'[t].pc = "done"
            /\ ~IsNone(frame'[t].result)
            /\ LET r == Val(frame'[t].result)
               IN  /\ r.success = FALSE
                   /\ ~IsNone(r.error_type)
                   /\ Val(r.error_type) \in ERROR_TYPES
                   /\ r.llm_response = Some(FALLBACK_MESSAGES[Val(r.error_type)])
                   /\ r.message.text = FALLBACK_MESSAGES[Val(r.error_type)]
                   /\ r.transcript = frame[t].user_message
                   /\ r.fallback_used = TRUE
                   /\ r.session_id = frame[t].session_id
       /\ frame'[t].pc = "rejected" =>
            LET ct == frame'[t].content_type
            IN  IsNone(ct) \/ ~PyStartsWith(Val(ct), AUDIO_PREFIX)
       /\ (frame[t].pc # "idle" /\ frame'[t].pc = "idle") =>
            (frame[t].pc = "rejected" \/ ~IsNone(frame[t].result))
    ]_vars

\* the read of the upload timed out and the call answers with the
\* connection_error result
C20_Witness ==
  \E t \in Turns :
    /\ frame[t].pc = "done"
    /\ frame[t].exception = Some("Read Timeout")
    /\ Val(frame[t].result).success = FALSE
    /\ Val(frame[t].result).error_type = Some("connection_error")
    /\ Val(frame[t].result).llm_response = Some(FALLBACK_MESSAGES.connection_error)
    /\ Val(frame[t].result).transcript = None

\* C21: a turn whose content type is missing or does not declare an audio
\* media type is rejected before the orchestration starts: no capability is
\* called, no message is appended to any session, and the session store is
\* left unchanged.
C21_RejectionLeavesStoreUnchanged ==
  [][\A t \in Turns :
       (frame[t].pc = "idle" /\ frame'[t].pc = "rejected") =>
         /\ frame'[t].calls = <<>>
         /\ \A k \in Sessions : Stored(chat_sessions', k) = Stored(chat_sessions, k)
         /\ chat_sessions' = chat_sessions
    ]_vars

\* the stages of a turn in their order, as the calls record them
StageOrder ==
  <<"safe_transcribe_audio", "append_user", "safe_generate_llm_response",
    "append_assistant", "truncate", "safe_generate_tts", "trim">>

\* the stage operations among the calls of a call, in the order they were made
StagesRun(f) ==
  SelectSeq(Ops(f), LAMBDA op : \E i \in 1..Len(StageOrder) : StageOrder[i] = op)

\* C22: in every turn the stages run in the strict order transcribe, store user
\* message, build context, generate, store assistant message, truncate,
\* synthesize, trim: the stages run so far are an initial part of that order
\* (the prompt is built between the user message's store and the generation);
\* the Responder is called only after this turn's user message is in the
\* history; the Synthesizer is called only after the assistant message (real
\* or fallback) is stored; and trim runs only after the synthesis attempt.
C22_StageOrder ==
  \A t \in Turns :
    LET f == frame[t]
        h == Session(f)
        run == StagesRun(f)
    IN  /\ Len(run) <= Len(StageOrder)
        /\ run = SubSeq(StageOrder, 1, Len(run))
        /\ f.pc = "build_context" => (run = SubSeq(StageOrder, 1, 2) /\ f.conversation_prompt = <<>>)
        /\ f.pc = "generate" =>
             /\ run = SubSeq(StageOrder, 1, 2)
             /\ f.conversation_prompt # <<>>
        /\ ResponderCalled(f) =>
             /\ f.conversation_prompt # <<>>
             /\ \E i \in 1..Len(f.calls) : f.calls[i].op = "append_user"
             /\ f.pc = "store_assistant" =>
                  (Len(h) >= 1 /\ h[Len(h)] = Message("user", Val(f.user_message), clock - 1))
        /\ SynthesisAttempted(f) =>
             /\ SubSeq(StageOrder, 1, 5) = SubSeq(run, 1, 5)
             /\ f.pc = "cleanup" =>
                  /\ Len(h) >= 2
                  /\ h[Len(h)] = Message("assistant", Val(f.assistant_message), clock - 1)
                  /\ h[Len(h) - 1] = Message("user", Val(f.user_message), clock - 2)
        /\ (\E i \in 1..Len(f.calls) : f.calls[i].op = "trim") =>
             (SynthesisAttempted(f) /\ run = StageOrder)

\* a turn whose Responder failed has run all the stages, the trim last
C22_Witness ==
  \E t \in Turns :
    /\ frame[t].pc = "finalize"
    /\ StagesRun(frame[t]) = StageOrder
    /\ ResponderFailed(frame[t])
    /\ frame[t].fallback_used

\* the 0-based indices of the spaces within the first max_chars characters
WindowSpaces(text, max_chars) ==
  {i \in 0..(Min2(Len(text), max_chars) - 1) : Char(text, i + 1) = " "}

\* C23: in the pre-synthesis truncation of the turn pipeline, when no sentence
\* terminator qualifies, the text is cut at the rightmost space of the window
\* only if that space's index is >= 0.9 * max_chars; otherwise it is cut at
\* the raw window boundary (the first max_chars characters); in both cases the
\* ellipsis marker is appended.
C23_SpaceCutOnlyPast90Percent ==
  \A t \in Turns :
    LET f == frame[t]
        T == Val(f.assistant_message)
        spaces == WindowSpaces(T, MAX_MURF_CHARS)
    IN  (Prepared(f) /\ Len(T) > MAX_MURF_CHARS
           /\ QualifyingTerminators(T, MAX_MURF_CHARS) = {}) =>
          LET ls == IF spaces = {} THEN -1 ELSE CHOOSE i \in spaces : \A j \in spaces : j <= i
          IN  f.tts_text =
                (IF 10 * ls >= 9 * MAX_MURF_CHARS
                   THEN SubSeq(T, 1, ls)
                   ELSE SubSeq(T, 1, MAX_MURF_CHARS)) \o "..."

\* C24: the two truncation call sites (the turn pipeline in chat_with_history
\* and the direct LLM query in query_llm) implement one algorithm with one
\* policy: for every reply and the same budget of 3000 characters the text
\* that query_llm hands to Murf is the text the turn pipeline prepares.
C24_CallSitesAgree ==
  (observed.endpoint = "query_llm" /\ observed.status = 200) =>
    observed.murf_text = TruncateForTts(observed.full_response, 3000)


\* an occurrence of "speech" that is not the end of the term "text_to_speech"
StandaloneSpeech(s) ==
  \E i \in 1..(Len(s) - 5) :
    /\ SubSeq(s, i, i + 5) = "speech"
    /\ ~(i > 8 /\ SubSeq(s, i - 8, i - 1) = "text_to_")

\* the class of an error text by the terms it holds, each term counted once
ClassByTerms(text) ==
  LET s == PyLower(text)
  IN  IF \/ PyContains(s, "assemblyai") \/ PyContains(s, "transcription")
         \/ StandaloneSpeech(s)
        THEN "stt_error"
      ELSE IF \/ PyContains(s, "gemini") \/ PyContains(s, "llm")
              \/ PyContains(s, "generate_content")
        THEN "llm_error"
      ELSE IF \/ PyContains(s, "murf") \/ PyContains(s, "tts")
              \/ PyContains(s, "text_to_speech")
        THEN "tts_error"
      ELSE IF \/ PyContains(s, "connection") \/ PyContains(s, "network")
              \/ PyContains(s, "timeout")
        THEN "connection_error"
      ELSE "general_error"

\* C25: the result of an unexpected exception carries exactly one error class,
\* fixed by the error text alone: a speech or transcription term gives
\* stt_error, else a generation term gives llm_error, else a synthesis term
\* (murf, tts, text_to_speech) gives tts_error, else a connectivity term
\* (connection, network, timeout) gives connection_error, else general_error
C25_ClassFromErrorText ==
  \A t \in Turns :
    LET f == frame[t]
    IN  (f.pc = "done" /\ Val(f.result).message.kind = "unexpected") =>
          /\ Val(f.result).error_type \in {Some(c) : c \in ERROR_TYPES}
          /\ Val(f.result).error_type = Some(ClassByTerms(Val(f.exception)))


Made(f, op) == \E i \in 1..Len(f.calls) : f.calls[i].op = op

\* C26: an adapter whose service is not configured makes no external call and
\* returns an error (the fallback synthesis: no audio); and no adapter raises,
\* whatever its service does: a call is in the handler of unexpected exceptions
\* only before its first adapter call, and a raising service gives an error value
C26_AdaptersReturnErrors ==
  \A t \in Turns :
    LET f == frame[t]
    IN  /\ (~aai_transcriber /\ Made(f, "safe_transcribe_audio")) =>
             /\ ~Made(f, "aai.transcribe")
             /\ Truthy(f.transcript_error) /\ IsNone(f.user_message)
        /\ (~gemini_client /\ Made(f, "safe_generate_llm_response")) =>
             /\ ~Made(f, "gemini.generate_content")
             /\ Truthy(f.llm_error)
        /\ (~murf_client /\ Made(f, "safe_generate_tts")) =>
             /\ ~Made(f, "murf.generate")
             /\ Truthy(f.tts_error) /\ IsNone(f.audio_url)
        /\ (~murf_client /\ Made(f, "generate_fallback_tts")) =>
             /\ ~Made(f, "murf.generate")
             /\ IsNone(Val(f.result).audio_url)
        /\ f.pc = "except" => f.calls = <<>>
        /\ (Made(f, "aai.transcribe") /\ Val(f.transcriber_outcome).kind = "raise") =>
             Truthy(f.transcript_error)
        /\ (Made(f, "gemini.generate_content") /\ Val(f.responder_outcome).kind = "raise") =>
             Truthy(f.llm_error)
        /\ (Made(f, "safe_generate_tts") /\ Val(f.synthesizer_outcome).kind = "raise") =>
             Truthy(f.tts_error)

\* a turn without Gemini and Murf clients has returned after both adapters
\* answered with their errors
C26_Witness ==
  \E t \in Turns :
    LET f == frame[t]
    IN  /\ f.pc = "done"
        /\ ~gemini_client /\ ~murf_client
        /\ Ops(f) = <<"safe_transcribe_audio", "aai.transcribe", "append_user",
                      "safe_generate_llm_response", "append_assistant", "truncate",
                      "safe_generate_tts", "trim">>
        /\ f.llm_error = Some("AI language model is not available")
        /\ f.tts_error = Some("Text-to-speech service is not available")


\* the voice and style of the Murf call that the adapter call at position i made
VoicePair(f, i) == <<f.calls[i + 1].voice, f.calls[i + 1].style>>

\* C27: the Synthesizer is called with (en-US-ken, Neutral) when the Responder
\* failed, which is when fallback_used is set, and with (en-US-claire, Cheerful)
\* when the Responder succeeded; the fallback audio of a failed turn is
\* requested with (en-US-ken, Neutral)
C27_VoiceSelection ==
  \A t \in Turns :
    LET f == frame[t]
    IN  \A i \in 1..(Len(f.calls) - 1) :
          f.calls[i + 1].op = "murf.generate" =>
            /\ f.calls[i].op \in {"safe_generate_tts", "generate_fallback_tts"}
            /\ f.calls[i].op = "safe_generate_tts" =>
                 /\ f.fallback_used <=> ResponderFailed(f)
                 /\ ResponderFailed(f) => VoicePair(f, i) = <<"en-US-ken", "Neutral">>
                 /\ ResponderSucceeded(f) =>
                      VoicePair(f, i) = <<"en-US-claire", "Cheerful">>
                 /\ ResponderFailed(f) \/ ResponderSucceeded(f)
            /\ f.calls[i].op = "generate_fallback_tts" =>
                 VoicePair(f, i) = <<"en-US-ken", "Neutral">>

\* the Responder raised and Murf was asked to speak the fallback reply
C27_Witness ==
  \E t \in Turns :
    LET f == frame[t]
    IN  /\ f.pc = "cleanup"
        /\ Val(f.responder_outcome).kind = "raise"
        /\ f.fallback_used
        /\ f.calls[Len(f.calls)] =
             MurfCall(FALLBACK_MESSAGES.llm_error, "en-US-ken", "Neutral")


\* C28: the step that ends a failed turn (failed transcription or unexpected
\* exception) returns a result whose audio_url is the audio Murf made of the
\* fixed fallback message when the Murf client exists and its call succeeds,
\* and null otherwise; a failing fallback synthesis does not raise, and every
\* other field of the result and every stored history are what they are when
\* the synthesis succeeds
C28_FallbackAudioBestEffort ==
  [][\A t \in Turns :
       (frame[t].pc \in {"stt_fallback", "except"} /\ frame'[t] # frame[t]) =>
         LET f == frame[t]
             g == frame'[t]
             o == Val(g.synthesizer_outcome)
             class == IF f.pc = "except" THEN get_error_type(Val(f.exception))
                      ELSE Val(f.error_type)
             text == FALLBACK_MESSAGES[class]
         IN  /\ g.pc = "done"
             /\ Val(g.result).audio_url =
                  IF o.kind \in {"not_called", "raise"} THEN None ELSE Some(o.ref)
             /\ o.kind = "not_called" <=> ~murf_client
             /\ murf_client =>
                  g.calls[Len(g.calls)] = MurfCall(text, "en-US-ken", "Neutral")
             /\ [Val(g.result) EXCEPT !.audio_url = None] =
                  ChatResponse(FALSE,
                               [kind |-> IF f.pc = "except" THEN "unexpected" ELSE "fallback",
                                text |-> text],
                               None, f.user_message, Some(text), f.session_id,
                               Len(Stored(chat_sessions, f.session_id)),
                               Some(class), TRUE)
             /\ \A s \in Sessions : Stored(chat_sessions', s) = Stored(chat_sessions, s)]_vars

\* a turn whose transcription failed has returned without audio because the
\* fallback synthesis raised
C28_Witness ==
  \E t \in Turns :
    LET f == frame[t]
    IN  /\ f.pc = "done"
        /\ Val(f.result).message.kind = "fallback"
        /\ murf_client
        /\ Val(f.synthesizer_outcome).kind = "raise"
        /\ IsNone(Val(f.result).audio_url)
        /\ Val(f.result).llm_response = Some(FALLBACK_MESSAGES.stt_error)


\* C29: a started call of chat_with_history eventually holds its one outcome,
\* a result or a rejection, whatever the services answer; a rejection carries
\* no result, and a call with an outcome does nothing but return it
C29_EveryTurnFinishesOnce ==
  /\ \A t \in Turns :
       (frame[t].pc # "idle") ~> (frame[t].pc \in {"done", "rejected"})
  /\ [][\A t \in Turns :
          /\ frame[t].pc \in {"done", "rejected"} =>
               frame'[t] = frame[t] \/ frame'[t] = InitialFrame
          /\ frame'[t].pc = "done" => ~IsNone(frame'[t].result)
          /\ frame'[t].pc # "done" => IsNone(frame'[t].result)]_vars

\* a call has run every stage and holds its result while another call waits
\* for its upload
C29_Witness ==
  \E t, u \in Turns :
    /\ frame[t].pc = "done"
    /\ Made(frame[t], "trim")
    /\ ~IsNone(frame[t].result)
    /\ frame[u].pc = "await_read"


\* the segments of a prompt that carry a message
PromptMessages(p) == SelectSeq(p, LAMBDA seg : seg.kind = "message")

\* C30: the stored sequence of a session changes only in a step of a turn on
\* that session or in a clear of that session, so no turn, trim or clear on
\* another session changes it; and the messages in the prompt of a turn are
\* the last messages of the turn's own session, in order
C30_SessionIsolation ==
  [][/\ \A s \in Sessions :
          Stored(chat_sessions', s) # Stored(chat_sessions, s) =>
            \/ \E t \in Turns :
                 loop = t /\ frame[t].session_id = s /\ frame'[t] # frame[t]
            \/ observed'.endpoint = "clear_chat_history" /\ observed'.session_id = s
     /\ \A t \in Turns :
          (frame[t].pc = "build_context" /\ frame'[t].pc = "generate") =>
            LET h == Stored(chat_sessions, frame[t].session_id)
                m == PromptMessages(frame'[t].conversation_prompt)
            IN  /\ Len(m) >= 1 /\ Len(m) <= Len(h)
                /\ \A i \in 1..Len(m) :
                     /\ m[i].content = h[Len(h) - Len(m) + i].content
                     /\ m[i].label = RoleLabel(h[Len(h) - Len(m) + i].role)]_vars

\* session s1 was cleared while session s2 keeps the two messages of its turn
C30_Witness ==
  /\ observed.endpoint = "clear_chat_history"
  /\ observed.session_id = "s1"
  /\ observed.message[1] = "Cleared"
  /\ observed.message[2] >= MAX_HISTORY_MESSAGES
  /\ "s1" \notin DOMAIN chat_sessions
  /\ Len(Stored(chat_sessions, "s2")) = 2


\* x is the reply of the turn of frame f: Gemini's text without its outer
\* blanks, or the fixed fallback reply when the Responder failed
IsFullReply(x, f) ==
  IF ResponderFailed(f) THEN x = FALLBACK_MESSAGES.llm_error
  ELSE LET text == Val(Val(f.responder_outcome).text)
       IN  IsStripped(x, text) \/ (x = "" /\ Blank(text))

\* C31: once a turn has stored its assistant message, the last message of its
\* session and, when the turn has finished, the llm_response of its result are
\* the whole reply, however long; only the text handed to Murf is the cut one
C31_TruncationOnlyForSynthesis ==
  \A t \in Turns :
    LET f == frame[t]
        h == Session(f)
    IN  Made(f, "append_assistant") =>
          /\ Len(h) >= 2
          /\ h[Len(h)].role = "assistant"
          /\ IsFullReply(h[Len(h)].content, f)
          /\ Returned(f) =>
               /\ ~IsNone(Val(f.result).llm_response)
               /\ Val(Val(f.result).llm_response) = h[Len(h)].content
          /\ \A i \in 1..Len(f.calls) :
               f.calls[i].op = "murf.generate" =>
                 /\ f.calls[i].text = f.tts_text
                 /\ Len(f.calls[i].text) <= MAX_MURF_CHARS + Len(Ellipsis)
                 /\ Len(h[Len(h)].content) <= MAX_MURF_CHARS =>
                      f.calls[i].text = h[Len(h)].content

\* a turn has returned a reply longer than the budget: Murf got the cut text,
\* the session and the result hold the whole reply
C31_Witness ==
  \E t \in Turns :
    LET f == frame[t]
    IN  /\ Returned(f)
        /\ Made(f, "murf.generate")
        /\ Len(f.tts_text) <= MAX_MURF_CHARS
        /\ Len(Val(Val(f.result).llm_response)) > MAX_MURF_CHARS
        /\ Session(f)[Len(Session(f))].content = PyStrip(LONG_REPLY)
        /\ f.tts_text # PyStrip(LONG_REPLY)


\* h is a sequence of pairs: a user message followed by an assistant message
Alternates(h) ==
  /\ Len(h) % 2 = 0
  /\ \A i \in 1..Len(h) : h[i].role = (IF i % 2 = 1 THEN "user" ELSE "assistant")

\* the turn that has stored its user message and not yet its assistant message
MidPair(s) ==
  \E t \in Turns :
    /\ loop = t
    /\ frame[t].session_id = s
    /\ frame[t].pc \in {"build_context", "generate", "store_assistant"}

\* C32: whenever no turn is between its two appends on a session, and so after
\* every completed turn and after every trim and clear, the history of the
\* session has even length and alternates user, assistant, from a user message
\* to an assistant message; between the two appends it is such a history
\* followed by the user message of the turn
C32_HistoryAlternates ==
  \A s \in Sessions :
    LET h == Stored(chat_sessions, s)
    IN  IF MidPair(s)
          THEN /\ Len(h) >= 1
               /\ h[Len(h)].role = "user"
               /\ Alternates(SubSeq(h, 1, Len(h) - 1))
          ELSE Alternates(h)

\* a turn on s1 has returned and its trim left the 20 messages from the user
\* message of time 23 to the assistant message of time 42
C32_Witness ==
  /\ loop = NoTurn
  /\ "s1" \in DOMAIN chat_sessions
  /\ Len(chat_sessions["s1"]) = MAX_HISTORY_MESSAGES
  /\ chat_sessions["s1"][1].role = "user"
  /\ chat_sessions["s1"][1].timestamp = 23
  /\ chat_sessions["s1"][MAX_HISTORY_MESSAGES].role = "assistant"
  /\ chat_sessions["s1"][MAX_HISTORY_MESSAGES].timestamp = 42

====
